---- MODULE Spec2Model ----
(***************************************************************************)
(* Aquila-Resolve: the batched phoneme Predictor (models/dp/model/         *)
(* predictor.py), the construction of Infer over a provisioned checkpoint  *)
(* (infer.py, data/remote.py), the pronunciation dictionary reader and the *)
(* text filter (known through tests/test_dict_reader.py and                *)
(* tests/test_filter.py).                                                  *)
(***************************************************************************)
EXTENDS Integers, Sequences, FiniteSets, TLC

VARIABLES
    \* ---- Predictor.__call__ / Predictor._predict_batch
    words,            \* the input list of the running call
    batch_size,       \* its batch_size argument
    pc,               \* "start" | "loop" | "done" | "raised"
    predictions,      \* __call__'s dict: word -> <<tokens, probs>>
    text_batches,     \* u_batchify(sorted valid_texts, batch_size)
    chunk,            \* index of the next chunk of the batch loop
    batch_pred,       \* _predict_batch's dict: word -> <<tokens, probs>>
    gen_memo,         \* the external model as a function: item tokens -> generated shape
    gen_calls,        \* history of the batches handed to model.generate in this call
    gen_failed,       \* a generate of this call raised or returned too few rows
    output,           \* the list of Predictions returned (pc = "done")
    error,            \* "none" | "generate" | "KeyError"
    prev_output,      \* output of the previous completed call on the same words
    prev_batch_size,  \* batch_size of that call (0: none)
    \* ---- Infer.__init__ over data/remote.py
    file,             \* local model.pt: 0 absent, v >= 1 a checkpoint of version v, -1 partial
    remote,           \* version published at the remote
    infer_pc,         \* "init" | "ensured" | "checked" | "constructed" | "failed"
    warnings,         \* set of warnings issued by the running construction
    attempts,         \* number of constructions started
    \* ---- DictReader
    lexicon,          \* the lines of the lexicon file
    dict,             \* word token -> list of phoneme lists
    dict_pc,          \* "init" | "loaded"
    lookup_result,    \* result of the last lookup
    \* ---- filter_text
    text,             \* the input string (a sequence of characters)
    numbers_mode,
    preserve_case,
    filter_pc,        \* "init" | "once" | "twice"
    result,           \* the result of the last application
    first_result      \* the result of the first application

predictor_vars == <<words, batch_size, pc, predictions, text_batches, chunk, batch_pred,
                    gen_memo, gen_calls, gen_failed, output, error,
                    prev_output, prev_batch_size>>
infer_vars == <<file, remote, infer_pc, warnings, attempts>>
dict_vars == <<lexicon, dict, dict_pc, lookup_result>>
filter_vars == <<text, numbers_mode, preserve_case, filter_pc, result, first_result>>
vars == <<predictor_vars, infer_vars, dict_vars, filter_vars>>

(***************************************************************************)
(* Bounds                                                                  *)
(***************************************************************************)
MaxWords == 2       \* longest input list of a predict call
MaxBatch == 2       \* largest batch_size
MaxGenLen == 2      \* the model's maximum generated length
ProbDen == 2        \* probabilities are k / ProbDen, k in 1..ProbDen

(***************************************************************************)
(* Generic helpers                                                         *)
(***************************************************************************)
Range(s) == {s[i] : i \in 1..Len(s)}

Min(a, b) == IF a < b THEN a ELSE b

SeqsUpTo(S, n) == UNION {[1..k -> S] : k \in 0..n}

EmptyDict == [w \in {} |-> <<>>]

RECURSIVE Pow(_, _)
Pow(b, n) == IF n = 0 THEN 1 ELSE b * Pow(b, n - 1)

RECURSIVE Flatten(_)
Flatten(ss) == IF ss = <<>> THEN <<>> ELSE Head(ss) \o Flatten(Tail(ss))

(***************************************************************************)
(* Tokenizers                                                              *)
(***************************************************************************)
PadTok == 0         \* padding_value of pad_sequence
StartTok == 1       \* language start index
EndTok == 2         \* end index
UnkTok == 3         \* unknown-symbol id of the text tokenizer
PhTok == 3          \* id of a phoneme symbol of the phoneme tokenizer

KnownChars == {"a", "b"}

CharId(c) == IF c \notin KnownChars THEN UnkTok ELSE IF c = "a" THEN 4 ELSE 5

IdChar(t) == CASE t = 4 -> "a" [] t = 5 -> "b" [] t = UnkTok -> "<unk>"
               [] t = StartTok -> "<en_us>" [] t = EndTok -> "<end>" [] OTHER -> "_"

TextSpecial == {PadTok, StartTok, EndTok, UnkTok}

\* text_tokenizer(sentence=word, language=lang): start id, one id per character, end id
text_tokenizer(word) ==
    <<StartTok>> \o [i \in 1..Len(word) |-> CharId(word[i])] \o <<EndTok>>

\* text_tokenizer.decode(sequence, remove_special_tokens)
text_decode(seq, remove_special_tokens) ==
    LET kept == IF remove_special_tokens
                THEN SelectSeq(seq, LAMBDA t : t \notin TextSpecial)
                ELSE seq
    IN  [i \in 1..Len(kept) |-> IdChar(kept[i])]

PhonSpecial == {PadTok, StartTok, EndTok}

IdPhon(t) == CASE t = PhTok -> "[AA]" [] t = StartTok -> "<en_us>"
               [] t = EndTok -> "<end>" [] OTHER -> "_"

\* phoneme_tokenizer.decode(sequence, remove_special_tokens)
phoneme_decode(seq, remove_special_tokens) ==
    LET kept == IF remove_special_tokens
                THEN SelectSeq(seq, LAMBDA t : t \notin PhonSpecial)
                ELSE seq
    IN  [i \in 1..Len(kept) |-> IdPhon(kept[i])]

(***************************************************************************)
(* Predictor                                                               *)
(***************************************************************************)
\* "!" stands for a character outside the text tokenizer's alphabet
WordUniverse == {<<>>, <<"!">>, <<"a">>, <<"b">>, <<"a", "!">>}

BatchSizes == 1..MaxBatch

\* predictor.py 54-57: the word yields an empty input to the model
\* (faulty variant: tests the raw word instead of its decoded tokenization)
IsDegenerate_raw(word) == Len(word) = 0
IsDegenerate(word) == Len(text_decode(text_tokenizer(word), TRUE)) = 0

\* predictor.py 62: sorted(list(valid_texts), key=lambda x: len(x)); the order of
\* list(set) is arbitrary and the sort is stable, so ties come in any order
IsOrder(s, S) == /\ Len(s) = Cardinality(S)
                 /\ Range(s) = S
\* (faulty variant: the sort left out)
SortedOrders_unsorted(S) == {s \in [1..Cardinality(S) -> S] : IsOrder(s, S)}
SortedOrders(S) ==
    {s \in [1..Cardinality(S) -> S] :
        /\ IsOrder(s, S)
        /\ \A i \in 1..(Len(s) - 1) : Len(s[i]) <= Len(s[i + 1])}

\* u_batchify(texts, batch_size): consecutive chunks of at most batch_size
u_batchify(texts, bs) ==
    LET n == Len(texts)
        k == (n + bs - 1) \div bs
    IN  [j \in 1..k |-> SubSeq(texts, (j - 1) * bs + 1, Min(j * bs, n))]

\* u_product(probs): product of the probabilities, 0 for the empty list;
\* a probability is a numerator over ProbDen, a product is <<numerator, denominator>>
RECURSIVE ProdNum(_)
ProdNum(probs) == IF probs = <<>> THEN 1 ELSE Head(probs) * ProdNum(Tail(probs))
u_product(probs) ==
    IF Len(probs) = 0 THEN <<0, 1>> ELSE <<ProdNum(probs), Pow(ProbDen, Len(probs))>>

\* _get_len_util_stop(sequence, end_index): length of the prefix before the first stop id
RECURSIVE _get_len_util_stop(_, _)
_get_len_util_stop(sequence, end_index) ==
    IF sequence = <<>> \/ Head(sequence) = end_index THEN 0
    ELSE 1 + _get_len_util_stop(Tail(sequence), end_index)

\* pad_sequence(sequences, batch_first=True, padding_value=0)
MaxLen(seqs) == IF seqs = <<>> THEN 0
                ELSE CHOOSE m \in {Len(seqs[i]) : i \in 1..Len(seqs)} :
                        \A i \in 1..Len(seqs) : Len(seqs[i]) <= m
PadTo(s, n, v) == s \o [i \in 1..(n - Len(s)) |-> v]
pad_sequence(seqs, v) == [i \in 1..Len(seqs) |-> PadTo(seqs[i], MaxLen(seqs), v)]

\* predictor.py 95-110: the batch handed to model.generate
MakeBatch(text_batch) ==
    LET input_batch == [i \in 1..Len(text_batch) |-> text_tokenizer(text_batch[i])]
    IN  [texts       |-> text_batch,
         text        |-> pad_sequence(input_batch, PadTok),
         text_len    |-> [i \in 1..Len(text_batch) |-> Len(input_batch[i])],
         start_index |-> [i \in 1..Len(text_batch) |-> StartTok]]

RECURSIVE SumSeq(_)
SumSeq(s) == IF s = <<>> THEN 0 ELSE Head(s) + SumSeq(Tail(s))

\* What the external model generates for one item: pairs <<token, probability>>,
\* n phoneme ids ended by the stop id, or cut at the maximum length without one;
\* the probabilities are some fixed function of the item and the position
GenShapes == 0..MaxGenLen
GenSeq(key, n) ==
    [j \in 1..Min(n + 1, MaxGenLen) |->
        <<IF j <= n THEN PhTok ELSE EndTok, 1 + ((SumSeq(key) + j) % ProbDen)>>]

\* The key under which the model's answer for item i of a batch is remembered:
\* the item's unpadded tokens (its true length and start id are functions of them)
ItemKey(batch, i) == SubSeq(batch.text[i], 1, batch.text_len[i])

\* model.generate(batch): one row per item, rows of one length gen_len
GenRows(batch, g) ==
    LET gen == [i \in 1..Len(g) |-> GenSeq(ItemKey(batch, i), g[i])]
        toks == [i \in 1..Len(g) |-> [j \in 1..Len(gen[i]) |-> gen[i][j][1]]]
        prbs == [i \in 1..Len(g) |-> [j \in 1..Len(gen[i]) |-> gen[i][j][2]]]
    IN  [out |-> pad_sequence(toks, PadTok), probs |-> pad_sequence(prbs, 1)]

\* predictor.py 115-116: the stored entry of one row
\* (faulty variant: the rows stored without the cut at seq_len)
StoreRow_full(out_row, probs_row) == <<out_row, probs_row>>
\* (faulty variant: the probabilities cut one position later than the tokens)
StoreRow_probs_off(out_row, probs_row) ==
    LET seq_len == _get_len_util_stop(out_row, EndTok)
    IN  <<SubSeq(out_row, 1, seq_len), SubSeq(probs_row, 1, Min(seq_len + 1, Len(probs_row)))>>
StoreRow(out_row, probs_row) ==
    LET seq_len == _get_len_util_stop(out_row, EndTok)
    IN  <<SubSeq(out_row, 1, seq_len), SubSeq(probs_row, 1, seq_len)>>

\* predictor.py 114-116: zip(text_batch, output_batch, probs_batch) stops at the
\* shortest of the three
\* (faulty variant: an item without a row gets an empty entry)
StoreRows_default(preds, text_batch, out, probs) ==
    [w \in DOMAIN preds \cup Range(text_batch) |->
        IF \E i \in 1..Len(text_batch) : text_batch[i] = w
        THEN LET i == CHOOSE i \in 1..Len(text_batch) : text_batch[i] = w
             IN  IF i <= Min(Len(out), Len(probs))
                 THEN StoreRow(out[i], probs[i]) ELSE <<<<>>, <<>>>>
        ELSE preds[w]]
StoreRows(preds, text_batch, out, probs) ==
    LET n == Min(Len(text_batch), Min(Len(out), Len(probs)))
        stored == {text_batch[i] : i \in 1..n}
    IN  [w \in DOMAIN preds \cup stored |->
            IF w \in stored
            THEN LET i == CHOOSE i \in 1..n : text_batch[i] = w
                 IN  StoreRow(out[i], probs[i])
            ELSE preds[w]]

\* predictions.update(batch_pred)
DictUpdate(d, e) ==
    [w \in DOMAIN d \cup DOMAIN e |-> IF w \in DOMAIN e THEN e[w] ELSE d[w]]

\* predictor.py 69-78: the Prediction of one word
\* (faulty variant: the confidence skips the first probability and is 1 for none)
MakePrediction_conf_off(word, entry) ==
    [word           |-> word,
     phonemes       |-> phoneme_decode(entry[1], TRUE),
     phoneme_tokens |-> phoneme_decode(entry[1], FALSE),
     confidence     |-> IF entry[2] = <<>> THEN <<1, 1>> ELSE u_product(Tail(entry[2])),
     token_probs    |-> entry[2]]
MakePrediction(word, entry) ==
    [word           |-> word,
     phonemes       |-> phoneme_decode(entry[1], TRUE),
     phoneme_tokens |-> phoneme_decode(entry[1], FALSE),
     confidence     |-> u_product(entry[2]),
     token_probs    |-> entry[2]]

\* predictor.py 67-80: one Prediction per input word, in input order
RECURSIVE Dedup(_)
Dedup(s) == IF s = <<>> THEN <<>>
            ELSE LET r == Dedup(SubSeq(s, 1, Len(s) - 1))
                 IN  IF s[Len(s)] \in Range(r) THEN r ELSE Append(r, s[Len(s)])
\* (faulty variant: one Prediction per distinct word)
Assemble_distinct(ws, preds) ==
    LET d == Dedup(ws) IN [i \in 1..Len(d) |-> MakePrediction(d[i], preds[d[i]])]
Assemble(ws, preds) == [i \in 1..Len(ws) |-> MakePrediction(ws[i], preds[ws[i]])]

\* The state of a call's locals before its first statement
CallReset ==
    /\ pc' = "start"
    /\ predictions' = EmptyDict
    /\ text_batches' = <<>>
    /\ chunk' = 1
    /\ batch_pred' = EmptyDict
    /\ gen_calls' = <<>>
    /\ gen_failed' = FALSE
    /\ output' = <<>>
    /\ error' = "none"

InitPredictor ==
    /\ words \in SeqsUpTo(WordUniverse, MaxWords)
    /\ batch_size \in BatchSizes
    /\ pc = "start"
    /\ predictions = EmptyDict
    /\ text_batches = <<>>
    /\ chunk = 1
    /\ batch_pred = EmptyDict
    /\ gen_memo = EmptyDict
    /\ gen_calls = <<>>
    /\ gen_failed = FALSE
    /\ output = <<>>
    /\ error = "none"
    /\ prev_output = <<>>
    /\ prev_batch_size = 0

IdlePredictor ==
    /\ words = <<>>
    /\ batch_size = 1
    /\ pc = "idle"
    /\ predictions = EmptyDict
    /\ text_batches = <<>>
    /\ chunk = 1
    /\ batch_pred = EmptyDict
    /\ gen_memo = EmptyDict
    /\ gen_calls = <<>>
    /\ gen_failed = FALSE
    /\ output = <<>>
    /\ error = "none"
    /\ prev_output = <<>>
    /\ prev_batch_size = 0

\* predictor.py 49-64 and 92-93: pre-filter, sort of the distinct valid words, chunks
Prefilter ==
    /\ pc = "start"
    /\ LET degenerate == {w \in Range(words) : IsDegenerate(w)}
           valid_texts == Range(words) \ degenerate
       IN  /\ predictions' = [w \in degenerate |-> <<<<>>, <<>>>>]
           /\ \E sorted \in SortedOrders(valid_texts) :
                 text_batches' = u_batchify(sorted, batch_size)
    /\ chunk' = 1
    /\ batch_pred' = EmptyDict
    /\ pc' = "loop"
    /\ UNCHANGED <<words, batch_size, gen_memo, gen_calls, gen_failed, output, error,
                   prev_output, prev_batch_size>>

\* The answers of the deterministic model for the items of a batch: an item seen
\* before gets the answer it got before
Answers(batch) ==
    {g \in [1..Len(batch.texts) -> GenShapes] :
        \A i \in 1..Len(batch.texts) :
            ItemKey(batch, i) \in DOMAIN gen_memo => g[i] = gen_memo[ItemKey(batch, i)]}

Remember(batch, g) ==
    LET keys == {ItemKey(batch, i) : i \in 1..Len(batch.texts)}
    IN  [k \in DOMAIN gen_memo \cup keys |->
            IF k \in DOMAIN gen_memo THEN gen_memo[k]
            ELSE g[CHOOSE i \in 1..Len(batch.texts) : ItemKey(batch, i) = k]]

\* predictor.py 94-116: one iteration of the batch loop, generate returning
\* one row per item
PredictChunk ==
    /\ pc = "loop"
    /\ chunk <= Len(text_batches)
    /\ LET batch == MakeBatch(text_batches[chunk])
       IN  \E g \in Answers(batch) :
              LET rows == GenRows(batch, g)
              IN  /\ gen_memo' = Remember(batch, g)
                  /\ gen_calls' = Append(gen_calls, [batch |-> batch, out |-> rows.out,
                                                     probs |-> rows.probs])
                  /\ batch_pred' = StoreRows(batch_pred, batch.texts, rows.out, rows.probs)
    /\ chunk' = chunk + 1
    /\ UNCHANGED <<words, batch_size, pc, predictions, text_batches, gen_failed, output,
                   error, prev_output, prev_batch_size>>

\* predictor.py 94-116: one iteration, generate returning a malformed output with
\* a row missing; zip pairs the rows there are
PredictChunkShort ==
    /\ pc = "loop"
    /\ chunk <= Len(text_batches)
    /\ LET batch == MakeBatch(text_batches[chunk])
       IN  \E g \in Answers(batch) :
              LET rows == GenRows(batch, g)
                  out == SubSeq(rows.out, 1, Len(rows.out) - 1)
                  probs == SubSeq(rows.probs, 1, Len(rows.probs) - 1)
              IN  /\ gen_calls' = Append(gen_calls, [batch |-> batch, out |-> out,
                                                     probs |-> probs])
                  /\ batch_pred' = StoreRows(batch_pred, batch.texts, out, probs)
    /\ gen_failed' = TRUE
    /\ chunk' = chunk + 1
    /\ UNCHANGED <<words, batch_size, pc, predictions, text_batches, gen_memo, output,
                   error, prev_output, prev_batch_size>>

\* predictor.py 111-112: generate raises; nothing catches it in _predict_batch or
\* __call__, the frames unwind and their locals are gone
GenerateRaises ==
    /\ pc = "loop"
    /\ chunk <= Len(text_batches)
    /\ gen_calls' = Append(gen_calls, [batch |-> MakeBatch(text_batches[chunk]),
                                       out |-> <<>>, probs |-> <<>>])
    /\ gen_failed' = TRUE
    /\ predictions' = EmptyDict
    /\ batch_pred' = EmptyDict
    /\ pc' = "raised"
    /\ error' = "generate"
    /\ output' = <<>>
    /\ UNCHANGED <<words, batch_size, text_batches, chunk, gen_memo,
                   prev_output, prev_batch_size>>

\* predictor.py 65-80: update and assembly, every word found
Return ==
    /\ pc = "loop"
    /\ chunk > Len(text_batches)
    /\ LET merged == DictUpdate(predictions, batch_pred)
       IN  /\ Range(words) \subseteq DOMAIN merged
           /\ predictions' = merged
           /\ output' = Assemble(words, merged)
    /\ pc' = "done"
    /\ UNCHANGED <<words, batch_size, text_batches, chunk, batch_pred, gen_memo,
                   gen_calls, gen_failed, error, prev_output, prev_batch_size>>

\* predictor.py 69: predictions[word] raises KeyError for a word no row was stored for
ReturnKeyError ==
    /\ pc = "loop"
    /\ chunk > Len(text_batches)
    /\ ~(Range(words) \subseteq DOMAIN DictUpdate(predictions, batch_pred))
    /\ predictions' = EmptyDict
    /\ batch_pred' = EmptyDict
    /\ output' = <<>>
    /\ pc' = "raised"
    /\ error' = "KeyError"
    /\ UNCHANGED <<words, batch_size, text_batches, chunk, gen_memo, gen_calls,
                   gen_failed, prev_output, prev_batch_size>>

\* The caller runs predict once more on the same list, with any batch_size
CallAgain ==
    /\ pc = "done"
    /\ prev_batch_size = 0
    /\ \E b \in BatchSizes : batch_size' = b
    /\ prev_output' = output
    /\ prev_batch_size' = batch_size
    /\ CallReset
    /\ UNCHANGED <<words, gen_memo>>


(***************************************************************************)
(* Infer.__init__ over data/remote.py                                      *)
(***************************************************************************)
MaxVersion == 3     \* versions the remote publishes
MaxAttempts == 2    \* constructions attempted

Absent == 0
Partial == 0 - 1

FileStates == {Absent, Partial} \cup (1..MaxVersion)

\* _model.exists()
Exists(f) == f # Absent

\* Outcomes of the GET of the Git LFS pointer and of the GET of the model
PtrOutcomes == {"ok", "garbage", "raise"}
NetOutcomes == {"ok", "http_error", "broken"}

\* remote.py 12-20 check_model, the pointer request having returned: a pointer
\* that cannot be parsed warns and gives False, else the checksums are compared
check_model(ptr, f, r) == IF ptr = "garbage" THEN FALSE ELSE f = r

check_model_warnings(ptr) == IF ptr = "garbage" THEN {"no_checksum"} ELSE {}

\* remote.py 23-35 download(update): the file left behind and "true", "false" or
\* "raise"
\* (faulty variant: an HTTP error of the download is swallowed)
download_swallow(update, f, r, net, ptr) ==
    IF ~update /\ Exists(f) THEN [file |-> f, result |-> "true"]
    ELSE IF update /\ Exists(f) /\ check_model(ptr, f, r) THEN [file |-> f, result |-> "true"]
    ELSE CASE net = "ok"         -> [file |-> r, result |-> "true"]
           [] net = "http_error" -> [file |-> f, result |-> "true"]
           [] net = "broken"     -> [file |-> Partial, result |-> "raise"]
download(update, f, r, net, ptr) ==
    IF ~update /\ Exists(f) THEN [file |-> f, result |-> "true"]
    ELSE IF update /\ Exists(f) /\ check_model(ptr, f, r) THEN [file |-> f, result |-> "true"]
    ELSE CASE net = "ok"         -> [file |-> r, result |-> IF Exists(r) THEN "true" ELSE "false"]
           [] net = "http_error" -> [file |-> f, result |-> "raise"]
           [] net = "broken"     -> [file |-> Partial, result |-> "raise"]

\* remote.py 38-44 ensure_download: RuntimeError unless download(update=False)
ensure_download(f, r, net) ==
    LET d == download(FALSE, f, r, net, "ok")
    IN  [file |-> d.file, pc |-> IF d.result = "true" THEN "ensured" ELSE "failed"]

\* remote.py 47-51 check_updates: a warning, nothing else, unless check_model()
check_updates(ptr, f, r) ==
    IF check_model(ptr, f, r) THEN {}
    ELSE check_model_warnings(ptr) \cup {"mismatch"}

\* infer.py 16 Phonemizer.from_checkpoint(checkpoint_path): a whole checkpoint of
\* any version loads, an absent or truncated file does not
Loads(f) == f >= 1

InitInfer ==
    /\ remote \in 1..MaxVersion
    /\ file \in {f \in FileStates : f <= remote}
    /\ infer_pc = "init"
    /\ warnings = {}
    /\ attempts = 1

IdleInfer ==
    /\ remote = 1
    /\ file = 1
    /\ infer_pc = "idle"
    /\ warnings = {}
    /\ attempts = 0

\* infer.py 13: ensure_download()
EnsureDownload ==
    /\ infer_pc = "init"
    /\ \E net \in NetOutcomes :
          LET e == ensure_download(file, remote, net)
          IN  /\ file' = e.file
              /\ infer_pc' = e.pc
    /\ UNCHANGED <<remote, warnings, attempts>>

\* infer.py 14: check_updates(), the pointer request answered
CheckUpdates ==
    /\ infer_pc = "ensured"
    /\ \E ptr \in PtrOutcomes \ {"raise"} :
          warnings' = warnings \cup check_updates(ptr, file, remote)
    /\ infer_pc' = "checked"
    /\ UNCHANGED <<file, remote, attempts>>

\* infer.py 14: check_updates(), requests.get raising in check_model
CheckUpdatesRaises ==
    /\ infer_pc = "ensured"
    /\ infer_pc' = "failed"
    /\ UNCHANGED <<file, remote, warnings, attempts>>

\* infer.py 15-18: the checkpoint is loaded and the object is complete
Load ==
    /\ infer_pc = "checked"
    /\ infer_pc' = IF Loads(file) THEN "constructed" ELSE "failed"
    /\ UNCHANGED <<file, remote, warnings, attempts>>

\* The remote publishes a new checkpoint
Publish ==
    /\ infer_pc # "idle"
    /\ remote < MaxVersion
    /\ remote' = remote + 1
    /\ UNCHANGED <<file, infer_pc, warnings, attempts>>

\* Infer() is called again
ConstructAgain ==
    /\ infer_pc \in {"constructed", "failed"}
    /\ attempts < MaxAttempts
    /\ attempts' = attempts + 1
    /\ infer_pc' = "init"
    /\ warnings' = {}
    /\ UNCHANGED <<file, remote>>

(***************************************************************************)
(* DictReader                                                              *)
(***************************************************************************)
MaxLines == 3       \* lines of the lexicon

Digits == {"1", "2"}
DigitVal(c) == IF c = "1" THEN 1 ELSE 2

\* The lines a lexicon is made of: comment, blank, and entries WORD  PH1 PH2 ...
LexLines ==
    {[kind |-> "comment", word |-> <<>>, phones |-> <<>>],
     [kind |-> "blank", word |-> <<>>, phones |-> <<>>],
     [kind |-> "entry", word |-> <<"a">>, phones |-> <<"P", "AA1">>],
     [kind |-> "entry", word |-> <<"a", "(", "1", ")">>, phones |-> <<"P", "AH0">>],
     [kind |-> "entry", word |-> <<"a", "(", "2", ")">>, phones |-> <<"K">>],
     [kind |-> "entry", word |-> <<"b">>, phones |-> <<"K">>],
     [kind |-> "entry", word |-> <<"b", "(", "1", ")">>, phones |-> <<"P", "AA1">>]}

\* A word token BASE(n)
IsVariantToken(w) ==
    /\ Len(w) >= 4
    /\ w[Len(w)] = ")"
    /\ w[Len(w) - 1] \in Digits
    /\ w[Len(w) - 2] = "("

ParseToken(w) ==
    IF IsVariantToken(w)
    THEN [base |-> SubSeq(w, 1, Len(w) - 3), n |-> DigitVal(w[Len(w) - 1])]
    ELSE [base |-> w, n |-> 0]

\* test_dict_reader.py 38: the line of BASE(n) is also found under its own key
\* (faulty variant: no key BASE(n) is stored)
StoreVariantKey_none(d, token, phones) == d
StoreVariantKey(d, token, phones) ==
    IF IsVariantToken(token)
    THEN [k \in DOMAIN d \cup {token} |-> IF k = token THEN <<phones>> ELSE d[k]]
    ELSE d

\* The phonemes of a line join the variant list of its base word
FoldVariant(d, base, phones) ==
    [k \in DOMAIN d \cup {base} |->
        IF k = base
        THEN (IF base \in DOMAIN d THEN Append(d[base], phones) ELSE <<phones>>)
        ELSE d[k]]

ParseLine(d, line) ==
    IF line.kind # "entry" THEN d
    ELSE StoreVariantKey(FoldVariant(d, ParseToken(line.word).base, line.phones),
                         line.word, line.phones)

RECURSIVE parse_dict(_)
parse_dict(lines) ==
    IF lines = <<>> THEN EmptyDict
    ELSE ParseLine(parse_dict(SubSeq(lines, 1, Len(lines) - 1)), lines[Len(lines)])

NotFound == <<"NotFound">>

\* lookup(word, variant_index)
lookup(d, word, variant_index) ==
    IF word \in DOMAIN d /\ variant_index + 1 <= Len(d[word])
    THEN d[word][variant_index + 1]
    ELSE NotFound

LookupWords == {<<"a">>, <<"b">>, <<"a", "(", "1", ")">>, <<"c">>}

InitDict ==
    /\ lexicon \in SeqsUpTo(LexLines, MaxLines)
    /\ dict = EmptyDict
    /\ dict_pc = "init"
    /\ lookup_result = <<>>

IdleDict ==
    /\ lexicon = <<>>
    /\ dict = EmptyDict
    /\ dict_pc = "idle"
    /\ lookup_result = <<>>

LoadDict ==
    /\ dict_pc = "init"
    /\ dict' = parse_dict(lexicon)
    /\ dict_pc' = "loaded"
    /\ UNCHANGED <<lexicon, lookup_result>>

Lookup ==
    /\ dict_pc = "loaded"
    /\ \E w \in LookupWords, i \in 0..1 :
          lookup_result' = [word |-> w, index |-> i, entry |-> lookup(dict, w, i)]
    /\ UNCHANGED <<lexicon, dict, dict_pc>>

(***************************************************************************)
(* filter_text / normalize                                                 *)
(***************************************************************************)
MaxTextLen == 3     \* characters of the input string

Alphabet == {"a", "E", "e_acute", "E_ACUTE", "1", " ", "TAB", ".", "@", "{"}

Whitespace == {" ", "TAB"}
DigitChars == {"1"}
Letters == {"a", "e", "E"}
Allowed == Letters \cup DigitChars \cup Whitespace \cup {",", ".", "?", "!", "'", "{", "}"}

\* 1. accent fold
StripAccent(c) == CASE c = "e_acute" -> "e" [] c = "E_ACUTE" -> "E" [] OTHER -> c
StripAccents(s) == [i \in 1..Len(s) |-> StripAccent(s[i])]
\* 2. case fold
Lower(c) == IF c = "E" THEN "e" ELSE c
LowerAll(s) == [i \in 1..Len(s) |-> Lower(s[i])]
\* 3. numbers
DeleteDigits(s) == SelectSeq(s, LAMBDA c : c \notin DigitChars)
\* 4. punctuation fold
DeleteDisallowed(s) == SelectSeq(s, LAMBDA c : c \in Allowed)
\* 5. whitespace collapse: a run of two or more becomes one space, the ends are trimmed
RECURSIVE CollapseRuns(_)
CollapseRuns(s) ==
    IF s = <<>> THEN <<>>
    ELSE IF Len(s) >= 2 /\ s[1] \in Whitespace /\ s[2] \in Whitespace
         THEN LET rest == CollapseRuns(Tail(s))
              IN  <<" ">> \o Tail(rest)
         ELSE <<s[1]>> \o CollapseRuns(Tail(s))
RECURSIVE TrimLeft(_)
TrimLeft(s) == IF s # <<>> /\ s[1] \in Whitespace THEN TrimLeft(Tail(s)) ELSE s
RECURSIVE TrimRight(_)
TrimRight(s) == IF s # <<>> /\ s[Len(s)] \in Whitespace
                THEN TrimRight(SubSeq(s, 1, Len(s) - 1)) ELSE s
Collapse(s) == TrimRight(TrimLeft(CollapseRuns(s)))

\* (faulty variant: the digits are deleted after the whitespace collapse)
normalize_late_digits(s, numbers, keep_case) ==
    LET s1 == StripAccents(s)
        s2 == IF keep_case THEN s1 ELSE LowerAll(s1)
        s4 == Collapse(DeleteDisallowed(s2))
    IN  IF numbers THEN s4 ELSE DeleteDigits(s4)
normalize(s, numbers, keep_case) ==
    LET s1 == StripAccents(s)
        s2 == IF keep_case THEN s1 ELSE LowerAll(s1)
        s3 == IF numbers THEN s2 ELSE DeleteDigits(s2)
        s4 == DeleteDisallowed(s3)
    IN  Collapse(s4)

InitFilter ==
    /\ text \in SeqsUpTo(Alphabet, MaxTextLen)
    /\ numbers_mode \in BOOLEAN
    /\ preserve_case \in BOOLEAN
    /\ filter_pc = "init"
    /\ result = <<>>
    /\ first_result = <<>>

IdleFilter ==
    /\ text = <<>>
    /\ numbers_mode = FALSE
    /\ preserve_case = FALSE
    /\ filter_pc = "idle"
    /\ result = <<>>
    /\ first_result = <<>>

Normalize ==
    /\ filter_pc = "init"
    /\ result' = normalize(text, numbers_mode, preserve_case)
    /\ first_result' = result'
    /\ filter_pc' = "once"
    /\ UNCHANGED <<text, numbers_mode, preserve_case>>

NormalizeAgain ==
    /\ filter_pc = "once"
    /\ result' = normalize(result, numbers_mode, preserve_case)
    /\ filter_pc' = "twice"
    /\ UNCHANGED <<text, numbers_mode, preserve_case, first_result>>

(***************************************************************************)
(* Specifications                                                          *)
(***************************************************************************)
Init == InitPredictor /\ IdleInfer /\ IdleDict /\ IdleFilter
Next ==
    \/ Prefilter /\ UNCHANGED <<infer_vars, dict_vars, filter_vars>>
    \/ PredictChunk /\ UNCHANGED <<infer_vars, dict_vars, filter_vars>>
    \/ PredictChunkShort /\ UNCHANGED <<infer_vars, dict_vars, filter_vars>>
    \/ GenerateRaises /\ UNCHANGED <<infer_vars, dict_vars, filter_vars>>
    \/ Return /\ UNCHANGED <<infer_vars, dict_vars, filter_vars>>
    \/ ReturnKeyError /\ UNCHANGED <<infer_vars, dict_vars, filter_vars>>
    \/ CallAgain /\ UNCHANGED <<infer_vars, dict_vars, filter_vars>>
Spec == Init /\ [][Next]_vars

InitI == IdlePredictor /\ InitInfer /\ IdleDict /\ IdleFilter
NextI ==
    \/ EnsureDownload /\ UNCHANGED <<predictor_vars, dict_vars, filter_vars>>
    \/ CheckUpdates /\ UNCHANGED <<predictor_vars, dict_vars, filter_vars>>
    \/ CheckUpdatesRaises /\ UNCHANGED <<predictor_vars, dict_vars, filter_vars>>
    \/ Load /\ UNCHANGED <<predictor_vars, dict_vars, filter_vars>>
    \/ Publish /\ UNCHANGED <<predictor_vars, dict_vars, filter_vars>>
    \/ ConstructAgain /\ UNCHANGED <<predictor_vars, dict_vars, filter_vars>>
SpecInfer == InitI /\ [][NextI]_vars

InitD == IdlePredictor /\ IdleInfer /\ InitDict /\ IdleFilter
NextD ==
    \/ LoadDict /\ UNCHANGED <<predictor_vars, infer_vars, filter_vars>>
    \/ Lookup /\ UNCHANGED <<predictor_vars, infer_vars, filter_vars>>
SpecDict == InitD /\ [][NextD]_vars

InitF == IdlePredictor /\ IdleInfer /\ IdleDict /\ InitFilter
NextF ==
    \/ Normalize /\ UNCHANGED <<predictor_vars, infer_vars, dict_vars>>
    \/ NormalizeAgain /\ UNCHANGED <<predictor_vars, infer_vars, dict_vars>>
SpecFilter == InitF /\ [][NextF]_vars

(***************************************************************************)
(* Properties of the Predictor (specification Spec)                        *)
(***************************************************************************)
Decoded(w) == text_decode(text_tokenizer(w), TRUE)

Submitted == Flatten([k \in 1..Len(gen_calls) |-> gen_calls[k].batch.texts])

LoopOver == pc = "done" \/ (pc = "loop" /\ chunk > Len(text_batches))

\* C1: a call that returns gives one Prediction per input word, the i-th one for
\* words[i]: nothing dropped, nothing reordered, duplicates included.
C1_OrderPreserved ==
    pc = "done" =>
        /\ Len(output) = Len(words)
        /\ \A i \in 1..Len(words) : output[i].word = words[i]

C1_Witness ==
    /\ pc = "done"
    /\ Len(words) = 2
    /\ words[1] = words[2]
    /\ Decoded(words[1]) # <<>>
    /\ Len(output) = 2

\* C2: the Predictions of a second call on the same list, under any other
\* batch_size and any other order of the set of valid words, equal those of the
\* first call, the model being the same function of the item.
C2_BatchingInvariance ==
    (pc = "done" /\ prev_batch_size # 0) => output = prev_output

C2_Witness ==
    /\ pc = "done"
    /\ prev_batch_size = 1
    /\ batch_size = 2
    /\ Len(gen_calls) = 1
    /\ Len(gen_calls[1].batch.texts) = 2
    /\ gen_calls[1].batch.text_len[1] # gen_calls[1].batch.text_len[2]
    /\ \E i \in 1..2 : PadTok \in Range(gen_calls[1].out[i])
    /\ output = prev_output

\* C3: the confidence of a returned Prediction is the product of its stored
\* probabilities and lies in (0, 1] when there are any, and is 0 when there are none.
C3_ConfidenceBound ==
    pc = "done" =>
        \A i \in 1..Len(output) :
            LET p == output[i]
                n == Len(p.token_probs)
            IN  IF n = 0
                THEN p.confidence[1] = 0
                ELSE /\ p.confidence = <<ProdNum(p.token_probs), Pow(ProbDen, n)>>
                     /\ 0 < p.confidence[1]
                     /\ p.confidence[1] <= p.confidence[2]

C3_Witness ==
    /\ pc = "done"
    /\ Len(output) = 2
    /\ Decoded(words[1]) = <<>>
    /\ output[1].token_probs = <<>>
    /\ output[1].confidence[1] = 0
    /\ Len(output[2].token_probs) = 2
    /\ output[2].confidence[1] < output[2].confidence[2]

\* C4 as stated: when generate fails for chunk k, the Predictions of the words of
\* chunks 1..k-1 are returned to the caller.
C4_PartialResultsReturned ==
    (pc = "raised" /\ error = "generate") =>
        \A j \in 1..(chunk - 1) :
            \A w \in Range(text_batches[j]) :
                \E i \in 1..Len(output) : output[i].word = w

\* C4 amended: a call in which a generate raised or returned too few rows never
\* returns; it ends in an error, nothing is returned and the entries of the
\* earlier chunks are gone with the call's locals.
C4_FailureSurfacedNothingReturned ==
    /\ gen_failed => pc # "done"
    /\ pc = "raised" =>
          /\ error \in {"generate", "KeyError"}
          /\ output = <<>>
          /\ batch_pred = EmptyDict
          /\ predictions = EmptyDict

C4_Witness ==
    /\ pc = "raised"
    /\ error = "generate"
    /\ chunk = 2
    /\ Len(gen_calls) = 2
    /\ Len(gen_calls[1].out) = 1

\* C8: no word whose decoded tokenization is empty is in a batch handed to
\* generate; such a word gets empty tokens, probabilities and phonemes; a call
\* whose words are all degenerate never calls generate.
C8_PrefilterShortCircuit ==
    /\ \A i \in 1..Len(Submitted) : Decoded(Submitted[i]) # <<>>
    /\ pc = "done" =>
          \A i \in 1..Len(words) :
              Decoded(words[i]) = <<>> =>
                  /\ output[i].phoneme_tokens = <<>>
                  /\ output[i].token_probs = <<>>
                  /\ output[i].phonemes = <<>>
    /\ (\A i \in 1..Len(words) : Decoded(words[i]) = <<>>) => gen_calls = <<>>

C8_Witness ==
    /\ pc = "done"
    /\ Len(words) = 2
    /\ words[1] = <<"!">>
    /\ Decoded(words[2]) # <<>>
    /\ Len(gen_calls) = 1
    /\ output[1].phonemes = <<>>

\* C9: the stored tokens and probabilities of an item are its generated row cut
\* before the first stop id, or the whole row when it has none; the two stored
\* sequences have the same length.
C9_StopTruncation ==
    pc # "raised" =>
        \A k \in 1..Len(gen_calls) :
            \A i \in 1..Len(gen_calls[k].out) :
                LET row == gen_calls[k].out[i]
                    prs == gen_calls[k].probs[i]
                    e == batch_pred[gen_calls[k].batch.texts[i]]
                    n == Len(e[1])
                IN  /\ Len(e[2]) = n
                    /\ EndTok \notin Range(e[1])
                    /\ e[1] = SubSeq(row, 1, n)
                    /\ e[2] = SubSeq(prs, 1, n)
                    /\ n = Len(row) \/ row[n + 1] = EndTok

C9_Witness ==
    /\ pc = "done"
    /\ Len(gen_calls) = 1
    /\ Len(gen_calls[1].out) = 2
    /\ gen_calls[1].out[1] = <<EndTok, PadTok>>
    /\ gen_calls[1].out[2] = <<PhTok, PhTok>>
    /\ batch_pred[gen_calls[1].batch.texts[1]][1] = <<>>
    /\ batch_pred[gen_calls[1].batch.texts[2]][1] = <<PhTok, PhTok>>

\* C10: the words handed to generate are pairwise distinct, come in chunks of 1 to
\* batch_size words and in ascending order of encoded length; once the loop is
\* over they are exactly the non-degenerate input words.
C10_DedupAndBuckets ==
    /\ \A i, j \in 1..Len(Submitted) :
          i < j => /\ Submitted[i] # Submitted[j]
                   /\ Len(text_tokenizer(Submitted[i])) <= Len(text_tokenizer(Submitted[j]))
    /\ \A k \in 1..Len(gen_calls) :
          /\ Len(gen_calls[k].batch.texts) >= 1
          /\ Len(gen_calls[k].batch.texts) <= batch_size
    /\ LoopOver =>
          Range(Submitted) = {w \in Range(words) : Decoded(w) # <<>>}

C10_Witness ==
    /\ pc = "done"
    /\ words = << <<"a", "!">>, <<"a">> >>
    /\ batch_size = 1
    /\ Submitted = << <<"a">>, <<"a", "!">> >>

(***************************************************************************)
(* Properties of Infer.__init__ (specification SpecInfer)                  *)
(***************************************************************************)
\* C5 as stated: no Infer object is constructed over a missing checkpoint or over
\* one whose checksum was found not to match the published one.
C5_FailFastOnMismatch ==
    infer_pc = "constructed" =>
        /\ file # Absent
        /\ ~("mismatch" \in warnings /\ "no_checksum" \notin warnings)

\* C5 amended: construction does not get past ensure_download, and no Infer
\* object is constructed, over a missing checkpoint; a mismatch of checksums is
\* a warning only.
C5_NeverOverMissing ==
    infer_pc \in {"ensured", "checked", "constructed"} => file # Absent

C5_Witness ==
    /\ infer_pc = "failed"
    /\ file = Absent
    /\ attempts = 1

(***************************************************************************)
(* Properties of the DictReader (specification SpecDict)                   *)
(***************************************************************************)
EntryLines == {i \in 1..Len(lexicon) : lexicon[i].kind = "entry"}

\* The lines of a base word come bare first, then (1), (2), ... in order, each once
Conventional ==
    \A i \in EntryLines :
        LET t == ParseToken(lexicon[i].word)
        IN  Cardinality({j \in EntryLines : j < i /\
                            ParseToken(lexicon[j].word).base = t.base}) = t.n

C7_Idempotent ==
    /\ filter_pc = "twice" => result = first_result
    /\ filter_pc \in {"once", "twice"} =>
          /\ \A i \in 1..(Len(result) - 1) :
                ~(result[i] \in Whitespace /\ result[i + 1] \in Whitespace)
          /\ result # <<>> =>
                (result[1] \notin Whitespace /\ result[Len(result)] \notin Whitespace)

C7_Witness ==
    /\ filter_pc = "twice"
    /\ text = <<"a", "1", " ">>
    /\ ~numbers_mode
    /\ result = <<"a">>

====
